---------------------------- MODULE Spec2Model ----------------------------
(***************************************************************************)
(* Model of bqmpq's src/mpq.rs: extraction of staredit\scenario.chk from   *)
(* an MPQ archive through StormLib (get_chk_from_mpq_filename) and its     *)
(* in-memory wrapper (get_chk_from_mpq_in_memory).                         *)
(*                                                                         *)
(* Every StormLib call, every std::fs call and the acquisition / release   *)
(* of the static LOCK mutex is one atomic step of the calling thread.      *)
(* StormLib itself is not part of the repository: an archive is modelled   *)
(* as the set of variants of the target entry it holds, each variant with  *)
(* the answers StormLib gives about it (locale, size words, read outcome). *)
(***************************************************************************)
EXTENDS Integers, Sequences, FiniteSets, TLC

(***************************************************************************)
(* Bounds of the model.                                                    *)
(***************************************************************************)
\* number of threads that call into the library concurrently
NumThreads == 2
\* largest entry size (in bytes) an archive entry reports in its low word
MaxSize == 2
\* largest number of locale variants of the target entry in one archive
MaxEntries == 2

(***************************************************************************)
(* Program constants.                                                      *)
(***************************************************************************)
\* 0xFFFFFFFF, the u32 with all bits set; written as the 32-bit value -1 because
\* TLC's integers are 32-bit signed.  No arithmetic is done on it.
SFILE_INVALID_SIZE == -1
ERROR_HANDLE_EOF == 38
\* a list that tries the neutral locale first
locales_NeutralFirst ==
    <<0, 1028, 1029, 1031, 1033, 1034, 1036, 1040, 1041, 1042, 1045, 1046,
      1049, 2057>>

\* mpq.rs:167-170: the fixed preference list: 0x404, 0x405, 0x407, 0x409, 0x40a, 0x40c,
\* 0x410, 0x411, 0x412, 0x415, 0x416, 0x419, 0x809, 0
locales ==
    <<1028, 1029, 1031, 1033, 1034, 1036, 1040, 1041, 1042, 1045, 1046,
      1049, 2057, 0>>

Threads == 1..NumThreads
\* the names Uuid::new_v4 hands out: one per call, hence one per thread
Uuids == Threads

(***************************************************************************)
(* The archive-reading capability's view of an archive.                    *)
(***************************************************************************)
\* any GetLastError value of a failed read other than ERROR_HANDLE_EOF
ERROR_OTHER == ERROR_HANDLE_EOF + 966

\* locales at which the model's archives hold a variant of the entry: the
\* first and a middle locale of the list, the neutral locale (last of the
\* list)
ArchLocales == {1028, 1033, 0}

\* StormLib's answers about one entry: whether SFileGetFileInfo succeeds,
\* the two size words of SFileGetFileSize, and SFileReadFile's outcome when
\* asked for sizeLow bytes (its return value, GetLastError and the number
\* of bytes delivered).  SFileReadFile returns true only when it delivered
\* every byte asked for.
EntryKinds ==
    \* an intact entry
    { [infoOk |-> TRUE, sizeLow |-> n, sizeHigh |-> 0, readOk |-> TRUE,
       delivered |-> n, lastError |-> 0] : n \in 0..MaxSize }
    \cup
    \* the locale query fails
    { [infoOk |-> FALSE, sizeLow |-> MaxSize, sizeHigh |-> 0, readOk |-> TRUE,
       delivered |-> MaxSize, lastError |-> 0] }
    \cup
    \* a size beyond 32 bits
    { [infoOk |-> TRUE, sizeLow |-> MaxSize, sizeHigh |-> 1, readOk |-> TRUE,
       delivered |-> MaxSize, lastError |-> 0] }
    \cup
    \* the size query fails
    { [infoOk |-> TRUE, sizeLow |-> SFILE_INVALID_SIZE, sizeHigh |-> h,
       readOk |-> FALSE, delivered |-> 0, lastError |-> ERROR_OTHER]
         : h \in {0, 1} }
    \cup
    \* the read stops at the end of the stream after d bytes
    { [infoOk |-> TRUE, sizeLow |-> MaxSize, sizeHigh |-> 0, readOk |-> FALSE,
       delivered |-> d, lastError |-> ERROR_HANDLE_EOF] : d \in 0..MaxSize }
    \cup
    \* the read fails for another reason after some of the bytes
    { [infoOk |-> TRUE, sizeLow |-> MaxSize, sizeHigh |-> 0, readOk |-> FALSE,
       delivered |-> 1, lastError |-> ERROR_OTHER] }

MkEntry(l, k) ==
    [locale |-> l, infoOk |-> k.infoOk, sizeLow |-> k.sizeLow,
     sizeHigh |-> k.sizeHigh, readOk |-> k.readOk, delivered |-> k.delivered,
     lastError |-> k.lastError]

AllEntries == { MkEntry(l, k) : <<l, k>> \in ArchLocales \X EntryKinds }

LocalesOf(a) == { e.locale : e \in a }

RECURSIVE ArchivesOf(_)
\* the archives holding at most n variants of the entry, at distinct locales
ArchivesOf(n) ==
    IF n = 0 THEN { {} }
    ELSE LET P == ArchivesOf(n - 1)
         IN  P \cup { x[1] \cup {x[2]} :
                        x \in { y \in P \X AllEntries :
                                  y[2].locale \notin LocalesOf(y[1]) } }

Archives == ArchivesOf(MaxEntries)

\* the content of an entry: every entry's bytes differ from the bytes of an
\* entry at another locale and from the zero bytes a fresh buffer holds
EntryByte(e) == (e.locale % 255) + 1
EntryData(e, n) == [i \in 1..n |-> EntryByte(e)]

(***************************************************************************)
(* Files, paths, handles and results.                                      *)
(***************************************************************************)
\* what a path holds: nothing, a file that is no MPQ archive (an empty or
\* partly written file among them), or an archive
NoFile == [type |-> "none"]
NotMpq == [type |-> "notmpq"]
EmptyFile == [type |-> "empty"]
PartialFile == [type |-> "partial"]
Mpq(a) == [type |-> "mpq", entries |-> a]

\* a filename that to_str / CString::new rejects
BadPath == [dir |-> "bad"]
\* a location outside the staging directory, with what it holds
DiskPath(c) == [dir |-> "disk", content |-> c]
\* format!("/tmp/{}.scx", uuid)
TmpPath(u) == [dir |-> "tmp", uuid |-> u]
NoPath == [dir |-> "none"]

\* HANDLE 0
NullHandle == [null |-> TRUE]
ArchiveHandle(a) == [null |-> FALSE, entries |-> a]

Ok(x) == [ok |-> TRUE, bytes |-> x]
Err(kind) == [ok |-> FALSE, err |-> kind]
NoResult == Err("none")

\* the entry at 0x404 with a decoy at the neutral locale
DecoyArchive ==
    { MkEntry(1028, [infoOk |-> TRUE, sizeLow |-> MaxSize, sizeHigh |-> 0,
                     readOk |-> TRUE, delivered |-> MaxSize, lastError |-> 0]),
      MkEntry(0, [infoOk |-> TRUE, sizeLow |-> 1, sizeHigh |-> 0,
                  readOk |-> TRUE, delivered |-> 1, lastError |-> 0]) }

\* the archives the concurrent callers open by filename: one without the
\* entry, and the one with the decoy
SampleArchives == { {}, DecoyArchive }

\* the buffers the concurrent callers pass: the archive with the decoy, and
\* bytes that are no archive
SampleBuffers == { Mpq(DecoyArchive), NotMpq }
AllContents == { Mpq(a) : a \in Archives } \cup {NotMpq}

(***************************************************************************)
(* State.                                                                  *)
(***************************************************************************)
VARIABLES
    \* static ref LOCK: the thread holding the mutex, NoThread when free
    mutex,
    \* StormLib's process-wide locale, set by SFileSetLocale
    activeLocale,
    \* the locale StormLib was left in before the calls of the behaviour
    startLocale,
    \* the staging directory: what /tmp/<uuid>.scx holds, per uuid
    fs,
    \* per thread: where its call stands and the call's local variables
    th

vars == <<mutex, activeLocale, startLocale, fs, th>>

NoThread == 0

\* a thread outside any call
IdleThread ==
    [pc |-> "idle", kind |-> "none", path |-> NoPath, buf |-> NoFile,
     mpq_handle |-> NullHandle, archive_file_handle |-> NullHandle,
     idx |-> 0, file_size_low |-> 0, probe |-> NoResult, result |-> NoResult,
     \* what the call did so far
     nLock |-> 0, nUnlock |-> 0, nOpenArchive |-> 0, nCloseArchive |-> 0,
     nOpenFile |-> 0, nCloseFile |-> 0, nRead |-> 0, probed |-> <<>>,
     created |-> FALSE, nRemove |-> 0, remove_err |-> FALSE,
     \* a close of the running probe or of the function's exit returned false
     close_err |-> FALSE]

Init ==
    /\ mutex = NoThread
    /\ activeLocale = 0
    /\ startLocale = activeLocale
    /\ fs = [u \in Uuids |-> NoFile]
    /\ th = [t \in Threads |-> IdleThread]

\* what SFileOpenArchive finds at a path
FileAt(p) ==
    IF p.dir = "disk" THEN p.content
    ELSE IF p.dir = "tmp" THEN fs[p.uuid]
    ELSE NoFile

(***************************************************************************)
(* Pure parts of the code.                                                 *)
(***************************************************************************)
Min(a, b) == IF a <= b THEN a ELSE b

\* vec![0; n]
Zeros(n) == [i \in 1..n |-> 0]

\* chk_data.resize(size, 0)
Resize(v, size) ==
    [i \in 1..size |-> IF i <= Len(v) THEN v[i] ELSE 0]

\* a conversion that cannot fail (to_string_lossy, NUL bytes cut off)
PathConverts_Lossy(p) == TRUE

\* mpq.rs:42-47: filename.to_str() and CString::new succeed
PathConverts(p) == p.dir # "bad"

\* a probe that takes whatever variant StormLib resolved to
LocaleMatches_Unchecked(gotten_locale, locale) == TRUE

\* mpq.rs:121: gotten_locale != locale ends the probe
LocaleMatches(gotten_locale, locale) == gotten_locale = locale

\* a size check that looks at the low word only
SizeCheck_LowWordOnly(file_size_low, file_size_high) ==
    IF file_size_low = SFILE_INVALID_SIZE THEN "SizeQueryFailed" ELSE "ok"

\* mpq.rs:130-141: the checks on the two size words, in the code's order
SizeCheck(file_size_low, file_size_high) ==
    IF file_size_low = SFILE_INVALID_SIZE THEN "SizeQueryFailed"
    ELSE IF file_size_high # 0 THEN "FileTooLarge"
    ELSE "ok"

\* a check that tolerates every end-of-stream, whatever was delivered
ReadAccepted_AnyEof(readOk, last_error, size, len) ==
    readOk \/ last_error = ERROR_HANDLE_EOF

\* mpq.rs:146-160: the read is kept when SFileReadFile returned true, or when
\* it returned false with ERROR_HANDLE_EOF and size differs from the length
\* asked for
ReadAccepted(readOk, last_error, size, len) ==
    readOk \/ ~(last_error # ERROR_HANDLE_EOF \/ size = len)

\* mpq.rs:162-164: the probe's value after an accepted read
ProbeValue(chk_data, size) == Ok(Resize(chk_data, size))

\* an exhausted loop that hands back the empty buffer
ExhaustedResult_EmptyOk == [ok |-> TRUE, bytes |-> <<>>]

\* mpq.rs:181-185: the value returned when the loop ran out of locales
ExhaustedResult == Err("EntryNotFound")

\* SFileOpenFileEx for the open-by-name of the entry under the active locale:
\* the variant stored at that locale when the archive has one; otherwise
\* StormLib falls back to another variant of its choosing or fails
Resolve(entries, locale) ==
    LET exact == { e \in entries : e.locale = locale }
    IN  IF exact # {} THEN exact ELSE entries \cup {NullHandle}

\* SFileReadFile(handle, buffer, len(buffer), ..): the buffer afterwards; the
\* bytes delivered are written at its start, the rest is left as it was
ReadInto(e, buffer) ==
    LET n == Min(e.delivered, Len(buffer))
    IN  [i \in 1..Len(buffer) |-> IF i <= n THEN EntryByte(e) ELSE buffer[i]]

(***************************************************************************)
(* Control flow: where a step goes next.                                   *)
(***************************************************************************)
\* a lock that never blocks
MutexAvailable_NeverBlocks == TRUE

\* the mutex can be taken: Mutex::lock blocks while another thread holds it
MutexAvailable == mutex = NoThread

\* where get_chk_from_mpq_filename's return leads: back to the caller, or
\* into get_chk_from_mpq_in_memory, whose deferred remove_file runs next
ReturnPc(kind) == IF kind = "mem" THEN "remove" ELSE "ret"

\* a close deferred before the open, which runs on the failed open as well
OpenFailurePc_ClosesArchive == "close_archive"

\* mpq.rs:58-63: bail! on a failed SFileOpenArchive leaves the function at
\* once; nothing is deferred yet, only _lock is dropped
OpenFailurePc == "unlock"

\* a lock released by hand, forgotten where a failed SFileOpenArchive bails
ReleasesLock_NotOnOpenFailure(result) == result # Err("ArchiveOpenFailed")

\* mpq.rs:49, 187: _lock is a guard; it is dropped, and the mutex released,
\* on every way out of the function, whatever the result
ReleasesLock(result) == TRUE

\* a close written by hand, forgotten where the size checks bail
ClosesFile_NotOnSizeFailure(probe) ==
    probe \notin {Err("SizeQueryFailed"), Err("FileTooLarge")}

\* mpq.rs:95-105: defer! runs SFileCloseFile on every way out of the probe
\* after SFileOpenFileEx succeeded, whatever the probe's outcome
ClosesFile(probe) == TRUE

\* a close written by hand after the loop, skipped by the early return
ClosesArchive_NotOnEarlyReturn(result) == ~result.ok

\* mpq.rs:65-76: defer! runs SFileCloseArchive on every way out of the
\* function after SFileOpenArchive succeeded, whatever the result
ClosesArchive(result) == TRUE

\* write_all and flush without the `?`: their errors are dropped and the call
\* goes on to the extraction
StagingFailurePc_GoesOn(created) == IF created THEN "cstring" ELSE "ret"

\* mpq.rs:194, 202, 204: the `?` returns the error at once; what is left to
\* run is the deferred remove_file, registered once File::create succeeded
StagingFailurePc(created) == IF created THEN "remove" ELSE "ret"

\* a removal that the `?` of write_all and flush skip
RemovesStaging_NotOnWriteFailure(result) == result # Err("StagingWriteFailed")

\* mpq.rs:196-200: defer! runs remove_file on every way out of
\* get_chk_from_mpq_in_memory after File::create succeeded
RemovesStaging(result) == TRUE

\* a release step whose failure replaces the value on its way out
AfterRelease_Surfaces(value, released) ==
    IF released THEN value ELSE Err("ReleaseFailed")

\* mpq.rs:66-75, 96-104, 197-199: a release step that fails is logged with
\* error!; the value on its way out is not touched
AfterRelease(value, released) == value

\* a function that sets StormLib back to the neutral locale before it returns
LocaleAtExit_Neutral(active) == 0

\* mpq.rs:175-187: nothing after the loop calls SFileSetLocale again; the
\* function returns with StormLib's locale as the last probe set it
LocaleAtExit(active) == active

\* a probe that leaves out SFileSetLocale and opens the entry under the
\* locale in force
ProbeLocale_Inherited(locale, active) == active

\* mpq.rs:81: SFileSetLocale(locale) comes first in every probe: the locale in
\* force for the probe's SFileOpenFileEx is the probe's own, whatever was in
\* force before
ProbeLocale(locale, active) == locale

\* a loop that also ends, with the probe's error, on a size beyond 32 bits
LoopEnds_OnTooLarge(probe) == probe.ok \/ probe = Err("FileTooLarge")

\* mpq.rs:175-179: the loop ends with the first probe that is Ok
LoopEnds(probe) == probe.ok

Self(t) == th[t]
\* a step of thread t changes its locals; the locale the behaviour started
\* with is a fact about the past
Set(t, r) ==
    /\ th' = [th EXCEPT ![t] = r]
    /\ UNCHANGED startLocale

(***************************************************************************)
(* get_chk_from_mpq_filename.                                              *)
(***************************************************************************)
\* mpq.rs:31: a thread calls get_chk_from_mpq_filename(p)
CallFilename(t, p) ==
    /\ Self(t).pc = "idle"
    /\ Set(t, [Self(t) EXCEPT !.pc = "cstring", !.kind = "file", !.path = p])
    /\ UNCHANGED <<mutex, activeLocale, fs>>

\* mpq.rs:42-47: the conversion of the filename; `?` returns on failure
CStringNew(t) ==
    /\ Self(t).pc = "cstring"
    /\ IF PathConverts(Self(t).path)
       THEN Set(t, [Self(t) EXCEPT !.pc = "lock"])
       ELSE Set(t, [Self(t) EXCEPT !.result = Err("InvalidPath"),
                                   !.pc = ReturnPc(Self(t).kind)])
    /\ UNCHANGED <<mutex, activeLocale, fs>>

\* mpq.rs:49: let _lock = LOCK.lock().unwrap()
Lock(t) ==
    /\ Self(t).pc = "lock"
    /\ MutexAvailable
    /\ mutex' = t
    /\ Set(t, [Self(t) EXCEPT !.pc = "open_archive", !.nLock = @ + 1])
    /\ UNCHANGED <<activeLocale, fs>>

\* mpq.rs:51-63: SFileOpenArchive(cstr, 0, STREAM_FLAG_READ_ONLY, &mut mpq_handle)
SFileOpenArchive(t) ==
    /\ Self(t).pc = "open_archive"
    /\ LET c == FileAt(Self(t).path)
       IN  IF c.type = "mpq"
           THEN Set(t, [Self(t) EXCEPT !.mpq_handle = ArchiveHandle(c.entries),
                                       !.nOpenArchive = @ + 1,
                                       !.idx = 1,
                                       !.pc = "set_locale"])
           ELSE Set(t, [Self(t) EXCEPT !.result = Err("ArchiveOpenFailed"),
                                       !.pc = OpenFailurePc])
    /\ UNCHANGED <<mutex, activeLocale, fs>>

\* mpq.rs:175-185: what follows a finished probe: return its value, try the
\* next locale, or bail when the list is exhausted
AfterProbe(r, probe) ==
    IF LoopEnds(probe)
    THEN [r EXCEPT !.result = probe, !.probe = NoResult, !.idx = 0,
                   !.pc = "close_archive"]
    ELSE IF r.idx < Len(locales)
    THEN [r EXCEPT !.probe = NoResult, !.idx = @ + 1, !.pc = "set_locale"]
    ELSE [r EXCEPT !.result = ExhaustedResult, !.probe = NoResult, !.idx = 0,
                   !.pc = "close_archive"]

\* mpq.rs:79-81: SFileSetLocale(locale) at the start of a probe
SFileSetLocale(t) ==
    /\ Self(t).pc = "set_locale"
    /\ activeLocale' = ProbeLocale(locales[Self(t).idx], activeLocale)
    /\ Set(t, [Self(t) EXCEPT !.pc = "open_file",
                              !.close_err = FALSE,
                              !.probed = Append(@, locales[Self(t).idx])])
    /\ UNCHANGED <<mutex, fs>>

\* mpq.rs:82-93: SFileOpenFileEx(mpq_handle, "staredit\\scenario.chk", 0, ..)
SFileOpenFileEx(t) ==
    /\ Self(t).pc = "open_file"
    /\ \E h \in Resolve(Self(t).mpq_handle.entries, activeLocale) :
         IF h = NullHandle
         THEN Set(t, AfterProbe(Self(t), Err("EntryOpenFailed")))
         ELSE Set(t, [Self(t) EXCEPT !.archive_file_handle = h,
                                     !.nOpenFile = @ + 1,
                                     !.pc = "get_info"])
    /\ UNCHANGED <<mutex, activeLocale, fs>>

\* mpq.rs:107-123: SFileGetFileInfo(.., SFileInfoLocale, ..) and the
\* comparison of gotten_locale with the probe's locale
SFileGetFileInfo(t) ==
    /\ Self(t).pc = "get_info"
    /\ LET e == Self(t).archive_file_handle
           locale == locales[Self(t).idx]
       IN  IF ~e.infoOk
           THEN Set(t, [Self(t) EXCEPT !.probe = Err("LocaleQueryFailed"),
                                       !.pc = "close_file"])
           ELSE IF ~LocaleMatches(e.locale, locale)
           THEN Set(t, [Self(t) EXCEPT !.probe = Err("not found"),
                                       !.pc = "close_file"])
           ELSE Set(t, [Self(t) EXCEPT !.pc = "get_size"])
    /\ UNCHANGED <<mutex, activeLocale, fs>>

\* mpq.rs:125-141: SFileGetFileSize and the checks of the two size words
SFileGetFileSize(t) ==
    /\ Self(t).pc = "get_size"
    /\ LET e == Self(t).archive_file_handle
           verdict == SizeCheck(e.sizeLow, e.sizeHigh)
       IN  IF verdict = "ok"
           THEN Set(t, [Self(t) EXCEPT !.file_size_low = e.sizeLow,
                                       !.pc = "read"])
           ELSE Set(t, [Self(t) EXCEPT !.probe = Err(verdict),
                                       !.pc = "close_file"])
    /\ UNCHANGED <<mutex, activeLocale, fs>>

\* mpq.rs:143-164: the buffer of file_size_low zero bytes, SFileReadFile into
\* it, the check of a failed read, the resize to the delivered length
SFileReadFile(t) ==
    /\ Self(t).pc = "read"
    /\ LET e == Self(t).archive_file_handle
           len == Self(t).file_size_low
           chk_data == ReadInto(e, Zeros(len))
           size == Min(e.delivered, len)
           readOk == e.readOk /\ size = len
       IN  IF ReadAccepted(readOk, e.lastError, size, len)
           THEN Set(t, [Self(t) EXCEPT !.probe = ProbeValue(chk_data, size),
                                       !.nRead = @ + 1,
                                       !.file_size_low = 0,
                                       !.pc = "close_file"])
           ELSE Set(t, [Self(t) EXCEPT !.probe = Err("ReadFailed"),
                                       !.nRead = @ + 1,
                                       !.file_size_low = 0,
                                       !.pc = "close_file"])
    /\ UNCHANGED <<mutex, activeLocale, fs>>

\* mpq.rs:95-105: the deferred SFileCloseFile(archive_file_handle); StormLib
\* frees the handle whatever it returns, and a false return is only logged
SFileCloseFile(t) ==
    /\ Self(t).pc = "close_file"
    /\ \E closed \in BOOLEAN :
         IF ClosesFile(Self(t).probe)
         THEN Set(t, AfterProbe(
                       [Self(t) EXCEPT !.archive_file_handle = NullHandle,
                                       !.nCloseFile = @ + 1,
                                       !.close_err = ~closed],
                       AfterRelease(Self(t).probe, closed)))
         ELSE Set(t, AfterProbe(Self(t), Self(t).probe))
    /\ UNCHANGED <<mutex, activeLocale, fs>>

\* mpq.rs:65-76: the deferred SFileCloseArchive(mpq_handle); a false return
\* is only logged
SFileCloseArchive(t) ==
    /\ Self(t).pc = "close_archive"
    /\ \E closed \in BOOLEAN :
         IF ClosesArchive(Self(t).result)
         THEN Set(t, [Self(t) EXCEPT !.mpq_handle = NullHandle,
                                     !.nCloseArchive = @ + 1,
                                     !.close_err = @ \/ ~closed,
                                     !.result = AfterRelease(@, closed),
                                     !.pc = "unlock"])
         ELSE Set(t, [Self(t) EXCEPT !.pc = "unlock"])
    /\ UNCHANGED <<mutex, activeLocale, fs>>

\* mpq.rs:187: _lock goes out of scope, after the deferred closes
Unlock(t) ==
    /\ Self(t).pc = "unlock"
    /\ IF ReleasesLock(Self(t).result)
       THEN /\ mutex' = IF mutex = t THEN NoThread ELSE mutex
            /\ Set(t, [Self(t) EXCEPT !.nUnlock = @ + 1,
                                      !.pc = ReturnPc(Self(t).kind)])
       ELSE /\ UNCHANGED mutex
            /\ Set(t, [Self(t) EXCEPT !.pc = ReturnPc(Self(t).kind)])
    /\ activeLocale' = LocaleAtExit(activeLocale)
    /\ UNCHANGED fs

\* a thread whose call has returned
DoneThread == [IdleThread EXCEPT !.pc = "done"]

\* the caller has the call's value; the call's locals are gone
Return(t) ==
    /\ Self(t).pc = "ret"
    /\ Set(t, DoneThread)
    /\ UNCHANGED <<mutex, activeLocale, fs>>

(***************************************************************************)
(* get_chk_from_mpq_in_memory.                                             *)
(***************************************************************************)
\* one fixed staging name for every call
NewUuid_Fixed(t) == 1

\* mpq.rs:192: Uuid::new_v4().as_simple().to_string(): 122 random bits, taken
\* to differ from the name of every other call
NewUuid(t) == t

\* mpq.rs:190-192: a thread calls get_chk_from_mpq_in_memory(mpq)
CallInMemory(t, mpq) ==
    /\ Self(t).pc = "idle"
    /\ Set(t, [Self(t) EXCEPT !.pc = "create", !.kind = "mem", !.buf = mpq,
                              !.path = TmpPath(NewUuid(t))])
    /\ UNCHANGED <<mutex, activeLocale, fs>>

\* mpq.rs:194: File::create(&path)?; the removal is deferred only after it
FileCreate(t) ==
    /\ Self(t).pc = "create"
    /\ \/ /\ fs' = [fs EXCEPT ![Self(t).path.uuid] = EmptyFile]
          /\ Set(t, [Self(t) EXCEPT !.created = TRUE, !.pc = "write"])
       \/ /\ Set(t, [Self(t) EXCEPT !.result = Err("StagingWriteFailed"),
                                    !.pc = StagingFailurePc(FALSE)])
          /\ UNCHANGED fs
    /\ UNCHANGED <<mutex, activeLocale>>

\* mpq.rs:202: file.write_all(mpq)?
WriteAll(t) ==
    /\ Self(t).pc = "write"
    /\ \/ /\ fs' = [fs EXCEPT ![Self(t).path.uuid] = Self(t).buf]
          /\ Set(t, [Self(t) EXCEPT !.pc = "flush"])
       \/ /\ fs' = [fs EXCEPT ![Self(t).path.uuid] = PartialFile]
          /\ Set(t, [Self(t) EXCEPT !.result = Err("StagingWriteFailed"),
                                    !.pc = StagingFailurePc(TRUE)])
    /\ UNCHANGED <<mutex, activeLocale>>

\* mpq.rs:204-206: file.flush()?, then get_chk_from_mpq_filename(&path)
Flush(t) ==
    /\ Self(t).pc = "flush"
    /\ \/ Set(t, [Self(t) EXCEPT !.pc = "cstring"])
       \/ Set(t, [Self(t) EXCEPT !.result = Err("StagingWriteFailed"),
                                 !.pc = StagingFailurePc(TRUE)])
    /\ UNCHANGED <<mutex, activeLocale, fs>>

\* mpq.rs:196-200: the deferred remove_file(&path); an Err is only logged
\* and the file stays
RemoveFile(t) ==
    /\ Self(t).pc = "remove"
    /\ IF RemovesStaging(Self(t).result)
       THEN \/ /\ fs' = [fs EXCEPT ![Self(t).path.uuid] = NoFile]
               /\ Set(t, [Self(t) EXCEPT !.nRemove = @ + 1,
                                         !.result = AfterRelease(@, TRUE),
                                         !.pc = "ret"])
            \/ /\ UNCHANGED fs
               /\ Set(t, [Self(t) EXCEPT !.nRemove = @ + 1,
                                         !.remove_err = TRUE,
                                         !.result = AfterRelease(@, FALSE),
                                         !.pc = "ret"])
       ELSE /\ UNCHANGED fs
            /\ Set(t, [Self(t) EXCEPT !.pc = "ret"])
    /\ UNCHANGED <<mutex, activeLocale>>

(***************************************************************************)
(* Specifications.                                                         *)
(***************************************************************************)
\* the steps of a running get_chk_from_mpq_filename call
FilenameStep(t) ==
    \/ CStringNew(t)
    \/ Lock(t)
    \/ SFileOpenArchive(t)
    \/ SFileSetLocale(t)
    \/ SFileOpenFileEx(t)
    \/ SFileGetFileInfo(t)
    \/ SFileGetFileSize(t)
    \/ SFileReadFile(t)
    \/ SFileCloseFile(t)
    \/ SFileCloseArchive(t)
    \/ Unlock(t)
    \/ Return(t)

\* the paths callers pass: a filename that does not convert, a missing file,
\* and the sample files
SamplePaths ==
    {BadPath, DiskPath(NoFile)} \cup { DiskPath(Mpq(a)) : a \in SampleArchives }

Next ==
    \E t \in Threads :
        \/ \E p \in SamplePaths : CallFilename(t, p)
        \/ \E mpq \in SampleBuffers : CallInMemory(t, mpq)
        \/ FileCreate(t)
        \/ WriteAll(t)
        \/ Flush(t)
        \/ RemoveFile(t)
        \/ FilenameStep(t)

\* NumThreads threads, each making one call of either kind
Spec == Init /\ [][Next]_vars

\* NumThreads threads, each making one call of get_chk_from_mpq_filename
NextFilename ==
    \E t \in Threads :
        \/ \E p \in SamplePaths : CallFilename(t, p)
        \/ FilenameStep(t)

\* the same with fair scheduling: every StormLib call returns and a thread
\* that can take a step of its call eventually does; whether a thread makes
\* a call at all is left open
FairSpec ==
    /\ Init
    /\ [][NextFilename]_vars
    /\ \A t \in Threads : WF_vars(FilenameStep(t))

\* one call of get_chk_from_mpq_filename on any archive of the bounded family
AllPaths == {BadPath, DiskPath(NoFile)} \cup { DiskPath(c) : c \in AllContents }

InitExtract ==
    /\ mutex = NoThread
    /\ activeLocale \in {0, 1033}
    /\ startLocale = activeLocale
    /\ fs = [u \in Uuids |-> NoFile]
    /\ \E p \in AllPaths :
         th = [t \in Threads |->
                 IF t = 1
                 THEN [IdleThread EXCEPT !.pc = "cstring", !.kind = "file",
                                         !.path = p]
                 ELSE IdleThread]

NextExtract == FilenameStep(1)

SpecExtract == InitExtract /\ [][NextExtract]_vars

(***************************************************************************)
(* Properties.                                                             *)
(***************************************************************************)
\* the preference list as the claims state it: 0x404, 0x405, 0x407, 0x409,
\* 0x40a, 0x40c, 0x410, 0x411, 0x412, 0x415, 0x416, 0x419, 0x809, 0
StatedList ==
    <<1028, 1029, 1031, 1033, 1034, 1036, 1040, 1041, 1042, 1045, 1046,
      1049, 2057, 0>>

\* the place of a locale in the stated list
Pos(l) == CHOOSE i \in 1..Len(StatedList) : StatedList[i] = l

\* the locales up to and including l, in the stated order
ProbedUpTo(l) == SubSeq(StatedList, 1, Pos(l))

\* the positions at which the thread's next step is a StormLib call, from
\* SFileOpenArchive to SFileCloseArchive
CapabilityPcs ==
    {"open_archive", "set_locale", "open_file", "get_info", "get_size",
     "read", "close_file", "close_archive"}

InCapability(t) == Self(t).pc \in CapabilityPcs

\* C1: at most one thread is between the start of SFileOpenArchive and the
\* completion of SFileCloseArchive, and every StormLib call of a thread is
\* made while that thread holds the mutex.
C1_MutualExclusion ==
    /\ \A t \in Threads : InCapability(t) => mutex = t
    /\ Cardinality({ t \in Threads : InCapability(t) }) <= 1

\* C1's case: a thread is inside the StormLib span while another thread's
\* call waits for the mutex
C1_Witness ==
    \E t, o \in Threads :
        /\ t # o
        /\ Self(t).pc \in {"open_file", "get_info", "read", "close_archive"}
        /\ Self(o).pc = "lock"

\* the locale the thread's latest SFileSetLocale call set
LastProbed(r) == r.probed[Len(r.probed)]

\* C2: an archive handle SFileOpenArchive opened is passed to
\* SFileCloseArchive exactly once before the call returns, on every way out;
\* when SFileOpenArchive failed, SFileCloseArchive is never called.
C2_ArchiveClosedOnce ==
    \A t \in Threads :
        LET r == Self(t) IN
        /\ r.nOpenArchive <= 1
        /\ r.nCloseArchive <= r.nOpenArchive
        /\ (r.mpq_handle # NullHandle) <=> (r.nOpenArchive = r.nCloseArchive + 1)
        /\ r.pc \in {"unlock", "ret", "remove"} =>
              /\ r.nCloseArchive = r.nOpenArchive
              /\ r.mpq_handle = NullHandle
        /\ r.result = Err("ArchiveOpenFailed") =>
              r.nOpenArchive = 0 /\ r.nCloseArchive = 0

\* C2's case: the loop returned early with a probe's bytes and the archive
\* was closed once
C2_Witness ==
    \E t \in Threads :
        /\ Self(t).pc = "ret"
        /\ Self(t).result.ok
        /\ Len(Self(t).probed) < Len(StatedList)
        /\ Self(t).nOpenArchive = 1
        /\ Self(t).nCloseArchive = 1

\* C3: an entry handle SFileOpenFileEx opened is closed by SFileCloseFile
\* exactly once before its probe returns, whichever step ended the probe; no
\* entry handle is open when the next probe sets its locale or when the
\* archive is closed.
C3_EntryClosedOnce ==
    \A t \in Threads :
        LET r == Self(t) IN
        /\ r.nCloseFile <= r.nOpenFile
        /\ r.nOpenFile <= r.nCloseFile + 1
        /\ (r.archive_file_handle # NullHandle) <=> (r.nOpenFile = r.nCloseFile + 1)
        /\ r.pc \in {"set_locale", "open_file", "close_archive", "unlock",
                     "ret", "remove"} =>
              /\ r.archive_file_handle = NullHandle
              /\ r.nCloseFile = r.nOpenFile

\* C3's case: a probe that opened an entry and was ended by a size check has
\* returned, and the next probe is about to set its locale
C3_Witness ==
    \E t \in Threads :
        /\ Self(t).pc = "set_locale"
        /\ Self(t).nOpenFile >= 1
        /\ Self(t).nCloseFile = Self(t).nOpenFile
        /\ \E e \in Self(t).mpq_handle.entries :
              /\ e.locale = LastProbed(Self(t))
              /\ e.infoOk
              /\ e.sizeHigh # 0

\* C4 as stated: a call that created its staging file has deleted it exactly
\* once when it returns, and the file is not present after the call.
C4_StagingAlwaysGone ==
    \A t \in Threads :
        (Self(t).pc = "ret" /\ Self(t).created) =>
            /\ Self(t).nRemove = 1
            /\ fs[Self(t).path.uuid] = NoFile

\* C4, amended: a call that created its staging file calls remove_file on it
\* exactly once, after everything else and before it returns, whether the
\* write, the flush or the extraction failed or the extraction succeeded; the
\* file is not present after the call unless that remove_file failed.
C4_StagingRemovedOnce ==
    \A t \in Threads :
        LET r == Self(t) IN
        r.kind = "mem" =>
            /\ r.nRemove <= 1
            /\ r.nRemove = 1 => r.created /\ r.pc = "ret"
            /\ (r.pc = "ret" /\ r.created) => r.nRemove = 1
            /\ (r.pc = "ret" /\ r.created /\ ~r.remove_err) =>
                  fs[r.path.uuid] = NoFile
            /\ (r.created /\ r.nRemove = 0) => fs[r.path.uuid] # NoFile

\* C4's case: the write failed after the file was created, and the file was
\* removed before the call returned
C4_Witness ==
    \E t \in Threads :
        /\ Self(t).pc = "ret"
        /\ Self(t).created
        /\ Self(t).result = Err("StagingWriteFailed")
        /\ Self(t).nRemove = 1
        /\ fs[Self(t).path.uuid] = NoFile

\* an entry whose probe under its own locale yields bytes: StormLib answers
\* the locale query, reports a valid size with a zero high word, and the read
\* is complete or stops at the end of the stream short of the size
Readable(e) ==
    /\ e.infoOk
    /\ e.sizeLow # SFILE_INVALID_SIZE
    /\ e.sizeHigh = 0
    /\ \/ e.readOk
       \/ e.lastError = ERROR_HANDLE_EOF /\ e.delivered < e.sizeLow

\* the call was made on an archive file
OnArchive(r) == r.path.dir = "disk" /\ r.path.content.type = "mpq"
ArchiveOf(r) == r.path.content.entries

\* the variant of an archive with the earliest / the latest locale of the list
Earliest(a) == CHOOSE e \in a : \A o \in a : Pos(e.locale) <= Pos(o.locale)
Latest(a) == CHOOSE e \in a : \A o \in a : Pos(o.locale) <= Pos(e.locale)

\* C5 as stated: for an archive with the entry at two locales of the list the
\* call returns the bytes of the entry at the earlier locale, and no locale
\* after it is probed.
C5_EarlierAlwaysWins ==
    \A t \in Threads :
        LET r == Self(t) IN
        (r.pc = "ret" /\ OnArchive(r) /\ Cardinality(ArchiveOf(r)) = 2) =>
            LET e1 == Earliest(ArchiveOf(r)) IN
            /\ r.result = Ok(EntryData(e1, e1.delivered))
            /\ r.probed = ProbedUpTo(e1.locale)

\* C5, amended: for an archive with the entry at two locales of the list the
\* call returns the bytes of the entry at the earlier locale whenever that
\* entry's probe succeeds, and then no later locale is probed; when it fails
\* the loop goes on and the call returns the later entry's bytes if that
\* probe succeeds, and an error otherwise.
C5_FirstReadableWins ==
    \A t \in Threads :
        LET r == Self(t) IN
        (r.pc = "ret" /\ OnArchive(r) /\ Cardinality(ArchiveOf(r)) = 2) =>
            LET e1 == Earliest(ArchiveOf(r))
                e2 == Latest(ArchiveOf(r))
            IN  /\ Readable(e1) =>
                      /\ r.result = Ok(EntryData(e1, e1.delivered))
                      /\ r.probed = ProbedUpTo(e1.locale)
                /\ (~Readable(e1) /\ Readable(e2)) =>
                      /\ r.result = Ok(EntryData(e2, e2.delivered))
                      /\ r.probed = ProbedUpTo(e2.locale)
                /\ (~Readable(e1) /\ ~Readable(e2)) => ~r.result.ok

\* C5's case: the entry at 0x409 and a decoy of other content at the neutral
\* locale, both intact; the call returned the bytes of the entry at 0x409
C5_Witness ==
    \E t \in Threads :
        LET r == Self(t) IN
        /\ r.pc = "ret"
        /\ OnArchive(r)
        /\ LocalesOf(ArchiveOf(r)) = {1033, 0}
        /\ \A e \in ArchiveOf(r) : e.readOk /\ Readable(e) /\ e.sizeLow = MaxSize
        /\ r.result = Ok([i \in 1..MaxSize |-> EntryByte(Earliest(ArchiveOf(r)))])
        /\ r.probed = ProbedUpTo(1033)

\* the entry behind the open handle answered the locale query with the
\* locale of the running probe
LocaleVerified(r) ==
    /\ r.archive_file_handle.infoOk
    /\ r.archive_file_handle.locale = LastProbed(r)

\* C6: when the opened entry reports a locale other than the probe's, or the
\* locale query fails, the probe fails and neither the size query nor the
\* read is made; the call never returns bytes of an entry whose locale is not
\* the locale set for the probe.
C6_ResolutionIntegrity ==
    \A t \in Threads :
        LET r == Self(t) IN
        /\ r.pc \in {"get_size", "read"} =>
              LocaleVerified(r) /\ r.archive_file_handle.locale = activeLocale
        /\ (r.pc = "close_file" /\ ~LocaleVerified(r)) =>
              ~r.probe.ok /\ r.file_size_low = 0
        /\ (r.pc = "close_file" /\ r.probe.ok) =>
              r.probe.bytes = EntryData(r.archive_file_handle,
                                        r.archive_file_handle.delivered)
        /\ (r.pc = "ret" /\ r.result.ok) =>
              \E e \in ArchiveOf(r) :
                  /\ e.locale = LastProbed(r)
                  /\ r.result.bytes = EntryData(e, e.delivered)

\* C6's case: asked for a locale the archive has no variant of, StormLib
\* opened the variant of another locale, and the probe failed
C6_Witness ==
    \E t \in Threads :
        LET r == Self(t) IN
        /\ r.pc = "close_file"
        /\ r.archive_file_handle.infoOk
        /\ Readable(r.archive_file_handle)
        /\ r.archive_file_handle.locale # LastProbed(r)
        /\ r.probe = Err("not found")
        /\ r.nRead = 0

\* C7: when the probe fails for every locale of the list the call returns
\* the error EntryNotFound, never Ok, after probing all 14 locales once each
\* in list order.
C7_Exhaustion ==
    \A t \in Threads :
        LET r == Self(t) IN
        /\ (r.pc = "ret" /\ OnArchive(r)
               /\ \A e \in ArchiveOf(r) : ~Readable(e)) =>
              /\ r.result = Err("EntryNotFound")
              /\ r.probed = StatedList
        /\ (r.pc = "ret" /\ r.nOpenArchive = 1 /\ ~r.result.ok) =>
              /\ r.result = Err("EntryNotFound")
              /\ r.probed = StatedList
        /\ (r.pc = "ret" /\ r.result.ok) =>
              \E e \in ArchiveOf(r) :
                  Readable(e) /\ e.locale = LastProbed(r)

\* C7's case: an archive whose two variants both fail their probes; the call
\* returned EntryNotFound after the whole list
C7_Witness ==
    \E t \in Threads :
        LET r == Self(t) IN
        /\ r.pc = "ret"
        /\ OnArchive(r)
        /\ Cardinality(ArchiveOf(r)) = 2
        /\ \A e \in ArchiveOf(r) : ~Readable(e)
        /\ r.nOpenFile >= 2
        /\ r.result = Err("EntryNotFound")
        /\ Len(r.probed) = 14

\* the entry behind the open handle passed the locale and size checks, so
\* the probe read it
WasRead(r) ==
    /\ LocaleVerified(r)
    /\ r.archive_file_handle.sizeLow # SFILE_INVALID_SIZE
    /\ r.archive_file_handle.sizeHigh = 0

\* C8: after the read of a buffer of the reported size, a read that stopped
\* early is accepted only when StormLib reports ERROR_HANDLE_EOF and
\* delivered fewer bytes than asked for, and the probe's value is then the
\* buffer cut to the delivered length; any other early stop fails the probe.
C8_ShortRead ==
    \A t \in Threads :
        LET r == Self(t)
            e == r.archive_file_handle
        IN  (r.pc = "close_file" /\ WasRead(r)) =>
              /\ e.readOk => r.probe = Ok(EntryData(e, e.sizeLow))
              /\ (~e.readOk /\ e.lastError = ERROR_HANDLE_EOF
                    /\ e.delivered < e.sizeLow) =>
                    r.probe = Ok(EntryData(e, e.delivered))
              /\ (~e.readOk /\ ~(e.lastError = ERROR_HANDLE_EOF
                                   /\ e.delivered < e.sizeLow)) =>
                    r.probe = Err("ReadFailed")

\* C8's case: the read stopped at the end of the stream after one byte of
\* several, and the probe's value is that one byte
C8_Witness ==
    \E t \in Threads :
        LET r == Self(t)
            e == r.archive_file_handle
        IN  /\ r.pc = "close_file"
            /\ WasRead(r)
            /\ ~e.readOk
            /\ e.lastError = ERROR_HANDLE_EOF
            /\ e.delivered = 1
            /\ e.sizeLow > 1
            /\ r.probe = Ok(<<EntryByte(e)>>)

\* C9: an entry whose size has a non-zero high word fails its probe with
\* FileTooLarge before a buffer is allocated or a read issued, so no value
\* comes from the low word alone; a low word equal to SFILE_INVALID_SIZE
\* fails the probe with SizeQueryFailed whatever the high word.
C9_SizeBound ==
    \A t \in Threads :
        LET r == Self(t)
            e == r.archive_file_handle
        IN  /\ r.pc = "read" =>
                  /\ e.sizeHigh = 0
                  /\ e.sizeLow # SFILE_INVALID_SIZE
                  /\ r.file_size_low = e.sizeLow
            /\ (r.pc = "close_file" /\ LocaleVerified(r)
                   /\ e.sizeLow = SFILE_INVALID_SIZE) =>
                  r.probe = Err("SizeQueryFailed")
            /\ (r.pc = "close_file" /\ LocaleVerified(r)
                   /\ e.sizeLow # SFILE_INVALID_SIZE /\ e.sizeHigh # 0) =>
                  r.probe = Err("FileTooLarge")
            /\ (r.pc = "ret" /\ r.result.ok) =>
                  \A x \in ArchiveOf(r) :
                      x.locale = LastProbed(r) =>
                          x.sizeHigh = 0 /\ x.sizeLow # SFILE_INVALID_SIZE
            /\ (r.pc = "ret" /\ OnArchive(r)
                   /\ \A x \in ArchiveOf(r) :
                         x.sizeHigh # 0 \/ x.sizeLow = SFILE_INVALID_SIZE) =>
                  r.nRead = 0

\* C9's case: a probe met an entry with a valid low word and a non-zero high
\* word and failed with FileTooLarge, no read having been made
C9_Witness ==
    \E t \in Threads :
        LET r == Self(t)
            e == r.archive_file_handle
        IN  /\ r.pc = "close_file"
            /\ LocaleVerified(r)
            /\ e.sizeLow = MaxSize
            /\ e.sizeHigh # 0
            /\ e.readOk
            /\ r.probe = Err("FileTooLarge")
            /\ r.nRead = 0

\* a call of the thread is under way
Calling(t) == Self(t).pc \notin {"idle", "done"}

\* C10: the mutex is acquired at most once per call and released on every
\* way out of get_chk_from_mpq_filename (failed SFileOpenArchive, a probe's
\* bytes, the list exhausted); with every StormLib call returning and fair
\* scheduling, every call eventually returns, and the mutex is free once no
\* call is under way.
C10_LockReleased ==
    /\ [](\A t \in Threads :
             /\ Self(t).nLock <= 1
             /\ Self(t).nUnlock <= Self(t).nLock
             /\ (mutex = t) <=> (Self(t).nLock = 1 /\ Self(t).nUnlock = 0)
             /\ Self(t).pc \in {"ret", "remove", "done"} => mutex # t)
    /\ []((\A t \in Threads : ~Calling(t)) => mutex = NoThread)
    /\ \A t \in Threads : Calling(t) ~> (Self(t).pc = "done")

\* C10's case: a call whose SFileOpenArchive failed has released the mutex
\* and is about to return, and another thread's call holds the mutex
C10_Witness ==
    \E t, o \in Threads :
        /\ t # o
        /\ Self(t).pc = "ret"
        /\ Self(t).result = Err("ArchiveOpenFailed")
        /\ Self(t).nLock = 1
        /\ Self(t).nUnlock = 1
        /\ mutex = o

\* the first entry of an archive, in the stated order of the locales, whose
\* own probe yields bytes
HasReadable(a) == \E e \in a : Readable(e)
FirstReadable(a) ==
    CHOOSE e \in a :
        /\ Readable(e)
        /\ \A o \in a : Readable(o) => Pos(e.locale) <= Pos(o.locale)

\* what a call returns when it runs alone on a file of content c
AloneOnContent(c) ==
    IF c.type # "mpq" THEN Err("ArchiveOpenFailed")
    ELSE IF HasReadable(c.entries)
    THEN Ok(EntryData(FirstReadable(c.entries),
                      FirstReadable(c.entries).delivered))
    ELSE Err("EntryNotFound")

\* what get_chk_from_mpq_filename(p) returns when it runs alone
AloneResult(p) ==
    IF p.dir = "bad" THEN Err("InvalidPath") ELSE AloneOnContent(p.content)

\* C11: with several threads running extraction calls concurrently, on
\* different archives among them, every call returns the value it returns
\* when it runs alone on its archive: no interleaving lets the locale another
\* call set, or another call's handles, decide which entry a call opens or
\* which bytes it returns.
C11_NoInterference ==
    \A t \in Threads :
        LET r == Self(t) IN
        /\ (r.pc = "ret" /\ r.kind = "file") => r.result = AloneResult(r.path)
        /\ (r.pc \in {"remove", "ret"} /\ r.kind = "mem" /\ r.nLock = 1) =>
              r.result = AloneOnContent(r.buf)
        /\ r.pc \in {"open_file", "get_info", "get_size", "read"} =>
              activeLocale = LastProbed(r)

\* C11's case: a call on the archive with the decoy has returned the bytes of
\* the entry at 0x404 while another thread's call, on an archive without the
\* entry, is in its probe loop and has set other locales
C11_Witness ==
    \E t, o \in Threads :
        /\ t # o
        /\ Self(t).pc = "ret"
        /\ FileAt(Self(t).path) = Mpq(DecoyArchive)
        /\ Self(t).result = Ok([i \in 1..MaxSize |-> EntryByte(FirstReadable(DecoyArchive))])
        /\ Self(o).pc = "open_file"
        /\ Self(o).path = DiskPath(Mpq({}))
        /\ Len(Self(o).probed) > 1

\* the locales a call alone on archive a probes, in order
AloneProbed(a) ==
    IF HasReadable(a) THEN ProbedUpTo(FirstReadable(a).locale) ELSE StatedList

\* C12: the value get_chk_from_mpq_filename returns is a function of what the
\* path holds and of nothing else; it does not depend on the locale earlier
\* calls left StormLib in, so two calls on the same unchanged archive, one
\* after the other, return the same value.
C12_Repeatable ==
    \A t \in Threads :
        LET r == Self(t) IN
        r.pc = "ret" =>
            /\ r.result = AloneResult(r.path)
            /\ OnArchive(r) => r.probed = AloneProbed(ArchiveOf(r))

\* C12's case: an earlier call left StormLib at locale 0x409; the archive
\* holds intact entries at 0x409 and at 0x404, and the call returned the
\* bytes of the entry at 0x404
C12_Witness ==
    \E t \in Threads :
        LET r == Self(t) IN
        /\ r.pc = "ret"
        /\ startLocale = 1033
        /\ OnArchive(r)
        /\ LocalesOf(ArchiveOf(r)) = {1028, 1033}
        /\ \A e \in ArchiveOf(r) : e.readOk /\ Readable(e) /\ e.sizeLow = MaxSize
        /\ r.result = Ok([i \in 1..MaxSize |-> EntryByte(Earliest(ArchiveOf(r)))])
        /\ activeLocale = 1028

\* the value a call returns when every release step succeeds
ValueWithReleases(r) ==
    IF r.kind = "file" THEN AloneResult(r.path)
    ELSE IF r.nLock = 1 THEN AloneOnContent(r.buf)
    ELSE Err("StagingWriteFailed")

\* C13: a failing release step (SFileCloseFile, SFileCloseArchive, remove_file
\* of the staging file) never changes the value a call returns: no release
\* step touches the value on its way out, and a call with a failed release
\* returns what it returns with the release succeeding, bytes staying bytes
\* and an error staying the same error.
C13_ReleaseFailureSilent ==
    /\ [](\A t \in Threads :
             (Self(t).pc = "ret" /\ (Self(t).close_err \/ Self(t).remove_err))
                 => Self(t).result = ValueWithReleases(Self(t)))
    /\ [][\A t \in Threads :
            LET r == th[t]
                n == th'[t]
            IN  /\ r.pc \in {"close_archive", "remove"} => n.result = r.result
                /\ (r.pc = "close_file" /\ n # r) =>
                      /\ r.probe.ok => n.result = r.probe
                      /\ (~r.probe.ok /\ n.pc = "set_locale") =>
                            n.result = r.result
                      /\ (~r.probe.ok /\ n.pc # "set_locale") =>
                            n.result = Err("EntryNotFound")]_vars

\* C13's case: an in-memory call whose extraction yielded bytes returned them
\* although a close and the removal of the staging file both failed
C13_Witness ==
    \E t \in Threads :
        LET r == Self(t) IN
        /\ r.pc = "ret"
        /\ r.kind = "mem"
        /\ r.close_err
        /\ r.remove_err
        /\ r.result.ok
        /\ Len(r.result.bytes) = MaxSize

\* the call's path holds nothing SFileOpenArchive can open
OpenFails(r) == r.path.dir = "disk" /\ r.path.content.type # "mpq"

\* C14: when SFileOpenArchive fails the call returns the error
\* ArchiveOpenFailed and nothing else runs: no locale is set, no entry is
\* opened, no probe is made, SFileCloseArchive is not called, and the mutex
\* is released.
C14_OpenFailureStops ==
    \A t \in Threads :
        LET r == Self(t) IN
        /\ (OpenFails(r) /\ r.pc \in {"unlock", "ret"}) =>
              r.result = Err("ArchiveOpenFailed")
        /\ OpenFails(r) =>
              /\ r.pc \notin {"set_locale", "open_file", "get_info", "get_size",
                              "read", "close_file", "close_archive"}
              /\ r.probed = <<>>
              /\ r.nOpenArchive = 0
              /\ r.nOpenFile = 0
              /\ r.nRead = 0
              /\ r.nCloseFile = 0
              /\ r.nCloseArchive = 0
              /\ r.mpq_handle = NullHandle
              /\ activeLocale = startLocale
        /\ (OpenFails(r) /\ r.pc = "ret") =>
              /\ r.nLock = 1
              /\ r.nUnlock = 1
              /\ mutex = NoThread

\* C14's case: a call on a file that is no archive has returned
\* ArchiveOpenFailed with the mutex free again, StormLib's locale still the
\* one an earlier call left
C14_Witness ==
    \E t \in Threads :
        LET r == Self(t) IN
        /\ r.pc = "ret"
        /\ r.path = DiskPath(NotMpq)
        /\ r.result = Err("ArchiveOpenFailed")
        /\ r.nLock = 1
        /\ r.nUnlock = 1
        /\ mutex = NoThread
        /\ activeLocale = 1033

\* the positions of a thread inside get_chk_from_mpq_filename
ExtractorPcs == {"cstring", "lock", "unlock"} \cup CapabilityPcs

\* the in-memory call failed while staging its buffer
StagingFailed(r) == r.kind = "mem" /\ r.result = Err("StagingWriteFailed")

\* the extractor was never entered
ExtractorUntouched(t) ==
    LET r == Self(t) IN
    /\ r.pc \notin ExtractorPcs
    /\ mutex # t
    /\ r.nLock = 0
    /\ r.nOpenArchive = 0
    /\ r.probed = <<>>
    /\ r.nOpenFile = 0
    /\ r.nRead = 0
    /\ r.nCloseFile = 0
    /\ r.nCloseArchive = 0

\* C15 as stated: when creating, writing or flushing the staging file fails,
\* the call fails with StagingWriteFailed without entering the extractor, and
\* the removal of the staging file still runs before the call returns.
C15_CleanupAlwaysRuns ==
    \A t \in Threads :
        LET r == Self(t) IN
        /\ StagingFailed(r) => ExtractorUntouched(t)
        /\ (r.kind = "mem" /\ r.pc \in ExtractorPcs) => r.created
        /\ (StagingFailed(r) /\ r.pc = "ret") => r.nRemove = 1

\* C15, amended: when creating, writing or flushing the staging file fails,
\* the call fails with StagingWriteFailed without entering the extractor;
\* after a failed write or flush remove_file still runs once before the call
\* returns, after a failed File::create there is no file and remove_file is
\* not called.
C15_StagingFailureStops ==
    \A t \in Threads :
        LET r == Self(t) IN
        /\ StagingFailed(r) => ExtractorUntouched(t)
        /\ (r.kind = "mem" /\ r.pc \in ExtractorPcs) =>
              r.created /\ ~StagingFailed(r)
        /\ (StagingFailed(r) /\ r.pc = "ret" /\ r.created) => r.nRemove = 1
        /\ (StagingFailed(r) /\ r.pc = "ret" /\ ~r.created) =>
              /\ r.nRemove = 0
              /\ fs[r.path.uuid] = NoFile

\* C15's case: one in-memory call returned StagingWriteFailed after its flush
\* failed (its file held the whole buffer, and stayed because the removal
\* failed too), another after its File::create failed
C15_Witness ==
    \E t, o \in Threads :
        /\ Self(t).pc = "ret"
        /\ StagingFailed(Self(t))
        /\ Self(t).created
        /\ Self(t).nRemove = 1
        /\ fs[Self(t).path.uuid] = Self(t).buf
        /\ Self(o).pc = "ret"
        /\ StagingFailed(Self(o))
        /\ ~Self(o).created
        /\ Self(o).nRemove = 0

\* C16: when the path does not convert to a C string (not UTF-8, or with a
\* NUL byte inside) the call returns the error InvalidPath before any archive
\* operation: no StormLib call is made, the mutex is not taken, and the
\* active locale and all handles are as they were.
C16_InvalidPathFirst ==
    \A t \in Threads :
        LET r == Self(t) IN
        r.path = BadPath =>
            /\ r.pc \in {"cstring", "ret"}
            /\ r.pc = "ret" => r.result = Err("InvalidPath")
            /\ r.nLock = 0
            /\ r.nUnlock = 0
            /\ mutex = NoThread
            /\ r.nOpenArchive = 0
            /\ r.probed = <<>>
            /\ r.nOpenFile = 0
            /\ r.nRead = 0
            /\ r.nCloseFile = 0
            /\ r.nCloseArchive = 0
            /\ r.mpq_handle = NullHandle
            /\ r.archive_file_handle = NullHandle
            /\ activeLocale = startLocale

\* C16's case: a call with a path that does not convert has returned
\* InvalidPath, the locale an earlier call left being still in force
C16_Witness ==
    \E t \in Threads :
        /\ Self(t).path = BadPath
        /\ Self(t).pc = "ret"
        /\ Self(t).result = Err("InvalidPath")
        /\ Self(t).nLock = 0
        /\ startLocale = 1033
        /\ activeLocale = 1033

\* the errors with which a single probe ends
ProbeErrors ==
    { Err(k) : k \in {"EntryOpenFailed", "LocaleQueryFailed", "not found",
                      "SizeQueryFailed", "FileTooLarge", "ReadFailed"} }

\* C17: a failed probe, whatever made it fail, is swallowed: the loop goes on
\* to the next locale of the list, the call returns the bytes of the first
\* locale after it whose probe succeeds, and the probe loop yields an error
\* only once the whole list is exhausted; no probe's own error is ever the
\* call's result.
C17_ProbeFailureSwallowed ==
    \A t \in Threads :
        LET r == Self(t) IN
        /\ r.result \notin ProbeErrors
        /\ r.pc \in {"set_locale", "open_file", "get_info", "get_size", "read",
                     "close_file"} =>
              /\ r.result = NoResult
              /\ r.idx = Len(r.probed) + (IF r.pc = "set_locale" THEN 1 ELSE 0)
              /\ r.probed = SubSeq(StatedList, 1, Len(r.probed))
              /\ \A e \in r.mpq_handle.entries :
                    (Readable(e) /\ Pos(e.locale) <= Len(r.probed)) =>
                        (e.locale = LastProbed(r) /\ r.pc # "set_locale")
        /\ (r.pc = "ret" /\ r.nOpenArchive = 1 /\ ~r.result.ok) =>
              /\ r.result = Err("EntryNotFound")
              /\ r.probed = StatedList
        /\ (r.pc = "ret" /\ r.result.ok) =>
              /\ r.result = Ok(EntryData(FirstReadable(ArchiveOf(r)),
                                         FirstReadable(ArchiveOf(r)).delivered))
              /\ LastProbed(r) = FirstReadable(ArchiveOf(r)).locale

\* C17's case: the probe at 0x404 met an entry whose size is beyond 32 bits
\* and failed; the loop went on and the call returned the bytes of the entry
\* at 0x409
C17_Witness ==
    \E t \in Threads :
        LET r == Self(t) IN
        /\ r.pc = "ret"
        /\ OnArchive(r)
        /\ LocalesOf(ArchiveOf(r)) = {1028, 1033}
        /\ Earliest(ArchiveOf(r)).infoOk
        /\ Earliest(ArchiveOf(r)).sizeLow = MaxSize
        /\ Earliest(ArchiveOf(r)).sizeHigh # 0
        /\ Readable(Latest(ArchiveOf(r)))
        /\ Latest(ArchiveOf(r)).delivered = MaxSize
        /\ r.result = Ok([i \in 1..MaxSize |-> EntryByte(Latest(ArchiveOf(r)))])
        /\ r.probed = ProbedUpTo(1033)

\* an in-memory call between the return of its flush and its remove_file:
\* the extractor runs, or has returned and the removal is still to come
Extracting(r) ==
    /\ r.kind = "mem"
    /\ \/ r.pc \in ExtractorPcs
       \/ r.pc = "remove" /\ r.nLock = 1

\* C18: under every interleaving of in-memory calls, whose staging steps run
\* outside the mutex, each call has a staging path of its own; its file holds
\* the call's whole buffer from before its SFileOpenArchive until after its
\* SFileCloseArchive, being written and flushed before the archive is opened
\* and removed only after the extractor returned; no call overwrites or
\* removes the staging file of another call.
C18_StagingIsolated ==
    /\ [](\A t \in Threads :
             LET r == Self(t) IN
             /\ \A o \in Threads :
                   (o # t /\ r.kind = "mem" /\ Self(o).kind = "mem") =>
                       Self(o).path # r.path
             /\ Extracting(r) =>
                   /\ r.created
                   /\ r.nRemove = 0
                   /\ fs[r.path.uuid] = r.buf
             /\ (r.kind = "mem" /\ r.mpq_handle # NullHandle) =>
                   r.buf = Mpq(r.mpq_handle.entries)
             /\ (r.kind = "mem" /\ r.nRemove = 1) =>
                   r.pc = "ret" /\ r.nCloseArchive = r.nOpenArchive)
    /\ [][\A u \in Uuids :
            fs'[u] # fs[u] =>
                \E t \in Threads :
                    /\ th'[t] # th[t]
                    /\ th[t].path = TmpPath(u)
                    /\ th[t].pc \in {"create", "write", "remove"}
                    /\ \A o \in Threads : o # t => th[o].path # TmpPath(u)]_vars

\* C18's case: one in-memory call is inside the extractor, about to close its
\* archive, with its staging file holding its whole buffer, while another
\* in-memory call has just removed its own staging file
C18_Witness ==
    \E t, o \in Threads :
        /\ t # o
        /\ Self(t).kind = "mem"
        /\ Self(t).pc = "close_archive"
        /\ Self(t).buf = Mpq(DecoyArchive)
        /\ fs[Self(t).path.uuid] = Self(t).buf
        /\ Self(o).kind = "mem"
        /\ Self(o).pc = "ret"
        /\ Self(o).nRemove = 1
        /\ fs[Self(o).path.uuid] = NoFile

\* C19: get_chk_from_mpq_filename does not restore StormLib's process-wide
\* locale: when a call that reached the probe loop returns, the active locale
\* is the locale of its last probe, the winning locale after a success and 0
\* after exhaustion; a call that fails at the path conversion or at
\* SFileOpenArchive leaves the active locale as it was.
C19_LocaleLeftBehind ==
    \A t \in Threads :
        LET r == Self(t) IN
        /\ (r.pc = "ret" /\ r.probed # <<>>) =>
              /\ activeLocale = LastProbed(r)
              /\ r.result.ok =>
                    /\ r.result = Ok(EntryData(FirstReadable(ArchiveOf(r)),
                                               FirstReadable(ArchiveOf(r)).delivered))
                    /\ activeLocale = FirstReadable(ArchiveOf(r)).locale
              /\ ~r.result.ok => activeLocale = 0
        /\ (r.pc = "ret" /\ r.nOpenArchive = 1) => r.probed # <<>>
        /\ (r.pc = "ret" /\ r.nOpenArchive = 0) =>
              /\ r.result \in {Err("InvalidPath"), Err("ArchiveOpenFailed")}
              /\ r.probed = <<>>
              /\ activeLocale = startLocale

\* C19's case: StormLib was at the neutral locale before the call; the call
\* returned the bytes of the entry at 0x409 and StormLib is left at 0x409
C19_Witness ==
    \E t \in Threads :
        LET r == Self(t) IN
        /\ r.pc = "ret"
        /\ r.result.ok
        /\ startLocale = 0
        /\ LastProbed(r) = 1033
        /\ activeLocale = 1033
=============================================================================
